---- MODULE Spec2Model ----
(***************************************************************************)
(* cmus_soundmenu.py: the MPRIS2 adapter of the cmus player.               *)
(*                                                                         *)
(* A launch (main) looks for a running instance on the session bus; when   *)
(* it finds one it forwards its argument text to SetStatus and exits,      *)
(* otherwise it constructs a CmusSoundMenu object, requests the well-known *)
(* bus name and runs the GLib main loop.  The adapter keeps the parsed     *)
(* player status (self.status) and the published property values          *)
(* (self.properties).                                                      *)
(*                                                                         *)
(* Conventions of the model                                                *)
(*  - a text is a sequence of lines, a line the sequence of the pieces     *)
(*    str.split(" ") gives (so "tag artist A" is <<"tag","artist","A">>);  *)
(*    the empty text is <<>>;                                              *)
(*  - a Python dict is a function whose DOMAIN is its key set;             *)
(*  - a Python value of a property is a record tagged with its type;       *)
(*  - an operator that models code which may raise returns a record with   *)
(*    a field exc, "" when nothing was raised;                             *)
(*  - the script is Python 2 (sys.argv[i].decode): int < unicode in every  *)
(*    mixed comparison, // is floor division.                              *)
(***************************************************************************)
EXTENDS Integers, Sequences, FiniteSets, TLC

\* ------------------------------------------------------------------ bounds

\* number of launches of the script in one session
NumProcs == 2
\* most quit_script callbacks waiting in one main loop at a time
MaxPending == 2

Procs == 1..NumProcs

\* ------------------------------------------------------- Python values

None == [isNone |-> TRUE]
PyStr(s) == [t |-> "str", v |-> s]
PyBool(b) == [t |-> "bool", v |-> b]
PyInt(n) == [t |-> "int", v |-> n]
\* a float, kept exact as the quotient num / den
PyFloat(n, d) == [t |-> "float", num |-> n, den |-> d]
PyList(l) == [t |-> "list", v |-> l]
PyDict(d) == [t |-> "dict", v |-> d]

Has(d, k) == k \in DOMAIN d
Put(d, k, v) == (k :> v) @@ d

\* int(s) of a unicode string: the decimal strings of the model's texts
IntStrings == {"-1", "0", "1", "10", "20", "50", "60", "100", "200"}
IsIntString(s) == s \in IntStrings
int(s) ==
    CASE s = "-1" -> -1 [] s = "0" -> 0 [] s = "1" -> 1 [] s = "10" -> 10
      [] s = "20" -> 20 [] s = "50" -> 50 [] s = "60" -> 60
      [] s = "100" -> 100 [] s = "200" -> 200

\* " ".join(pieces): the text of a line after its first space
RECURSIVE Join(_)
Join(ws) == IF Len(ws) = 1 THEN ws[1] ELSE ws[1] \o " " \o Join(Tail(ws))

\* '://' in s, for the file names and uris of the model's texts
HasScheme(s) == s \in {"http://r/s"}
\* os.path.splitext(os.path.basename(s))[0]
BaseNoExt(s) ==
    CASE s = "/m/a.mp3" -> "a" [] s = "/m/b.mp3" -> "b" [] OTHER -> s
\* base64.b32encode(s) with "=" replaced by "_"
encoded_uri(s) ==
    CASE s = "" -> ""
      [] s = "/m/a.mp3" -> "F5WS6YJONVYDG___"
      [] s = "/m/b.mp3" -> "F5WS6YRONVYDG___"
      [] s = "http://r/s" -> "NB2HI4B2F4XXEL3T"
\* s.split("/") and s.split("\n") of the tag values of the model's texts
SplitSlash(s) == CASE s = "A/B" -> <<"A", "B">> [] OTHER -> <<s>>
SplitNewline(s) == <<s>>

\* ----------------------------------------------- helpers of the adapter

get_track_id(track_path) == "/com/cmus/track/" \o encoded_uri(track_path)

\* a get_title without the fallback to the file name
get_title_of_tag(title, file_name) == title

get_title(title, file_name) ==
    IF title # "" THEN title
    ELSE IF file_name # ""
         THEN IF HasScheme(file_name) THEN file_name ELSE BaseNoExt(file_name)
         ELSE ""

get_url(file_name) ==
    IF HasScheme(file_name) THEN file_name ELSE "file://" \o file_name

\* the file tree: the tracks for which get_embedded_cover or get_dir_cover
\* finds an image that PIL can resize
CoverFiles == {"/m/a.mp3"}
TempImageName == "/tmp/tmpcover"
\* get_cover: TRUE when a thumbnail was written to self.tempimage
get_cover(new_status) ==
    /\ Has(new_status, "file")
    /\ new_status["file"] # ""
    /\ new_status["file"] \in CoverFiles

\* ------------------------------------------------------ property mapper

get_PlaybackStatus(new_status) ==
    IF new_status # None /\ Has(new_status, "status")
    THEN CASE new_status["status"] = "playing" -> PyStr("Playing")
           [] new_status["status"] = "paused" -> PyStr("Paused")
           [] OTHER -> PyStr("Stopped")
    ELSE PyStr("Stopped")

get_LoopStatus(new_status) ==
    IF new_status = None THEN PyStr("")
    ELSE IF Has(new_status, "continue") /\ Has(new_status, "repeat")
         THEN IF new_status["continue"] = "false" THEN PyStr("None")
              ELSE IF new_status["continue"] = "true"
                   THEN IF new_status["repeat_current"] = "true"
                        THEN PyStr("Track")
                        ELSE IF new_status["repeat"] = "true"
                             THEN PyStr("Playlist")
                             ELSE PyStr("None")
                   ELSE PyStr("")
         ELSE PyStr("")

get_Shuffle(new_status) ==
    IF new_status = None THEN PyBool(FALSE)
    ELSE IF Has(new_status, "shuffle") /\ new_status["shuffle"] # ""
         THEN PyBool(TRUE)
         ELSE PyBool(FALSE)

\* [exc, v]: int() of a channel that is no decimal string raises ValueError
get_Volume(new_status) ==
    IF new_status = None THEN [exc |-> "", v |-> PyFloat(0, 1)]
    ELSE IF Has(new_status, "vol_left") /\ Has(new_status, "vol_right")
         THEN IF IsIntString(new_status["vol_left"])
                 /\ IsIntString(new_status["vol_right"])
              THEN [exc |-> "",
                    v |-> PyFloat(int(new_status["vol_left"])
                                  + int(new_status["vol_right"]), 200)]
              ELSE [exc |-> "ValueError", v |-> None]
         ELSE [exc |-> "", v |-> PyFloat(0, 1)]

\* the keys of new_status that get_Metadata copies, in the order of the code
NonEmpty(d, k) == Has(d, k) /\ d[k] # ""
\* [exc, v]: int() of duration, discnumber or tracknumber may raise
get_Metadata(new_status) ==
    IF new_status = None THEN [exc |-> "", v |-> PyStr("")]
    ELSE LET d == new_status
             bad == {k \in {"duration", "discnumber", "tracknumber"} :
                        NonEmpty(d, k) /\ ~IsIntString(d[k])}
         IN  IF bad # {} THEN [exc |-> "ValueError", v |-> None]
             ELSE [exc |-> "",
                   v |-> PyDict(
                       ("mpris:trackid" :> get_track_id(d["file"]))
                    @@ (IF NonEmpty(d, "duration")
                        THEN ("mpris:length" :> int(d["duration"]) * 1000)
                        ELSE <<>>)
                    @@ (IF NonEmpty(d, "cover")
                        THEN ("mpris:artUrl" :> get_url(d["cover"]))
                        ELSE <<>>)
                    @@ (IF NonEmpty(d, "album")
                        THEN ("xesam:album" :> d["album"]) ELSE <<>>)
                    @@ (IF NonEmpty(d, "albumartist")
                        THEN ("xesam:albumArtist" :> SplitSlash(d["albumartist"]))
                        ELSE <<>>)
                    @@ (IF NonEmpty(d, "artist")
                        THEN ("xesam:artist" :> SplitSlash(d["artist"]))
                        ELSE <<>>)
                    @@ (IF NonEmpty(d, "comment")
                        THEN ("xesam:comment" :> SplitNewline(d["comment"]))
                        ELSE <<>>)
                    @@ (IF NonEmpty(d, "composer")
                        THEN ("xesam:composer" :> SplitSlash(d["composer"]))
                        ELSE <<>>)
                    @@ (IF NonEmpty(d, "date")
                        THEN ("xesam:contentCreated" :> d["date"]) ELSE <<>>)
                    @@ (IF NonEmpty(d, "discnumber")
                        THEN ("xesam:discNumber" :> int(d["discnumber"]))
                        ELSE <<>>)
                    @@ (IF NonEmpty(d, "genre")
                        THEN ("xesam:genre" :> SplitSlash(d["genre"])) ELSE <<>>)
                    @@ (IF NonEmpty(d, "title")
                        THEN ("xesam:title" :> d["title"]) ELSE <<>>)
                    @@ (IF NonEmpty(d, "tracknumber")
                        THEN ("xesam:trackNumber" :> int(d["tracknumber"]))
                        ELSE <<>>)
                    @@ (IF NonEmpty(d, "file")
                        THEN ("xesam:url" :> get_url(d["file"])) ELSE <<>>))]

\* get_Position without its re-query: [exc, v, requery]
get_Position_value(new_status) ==
    IF new_status = None THEN [exc |-> "", v |-> PyStr("")]
    ELSE IF Has(new_status, "position") /\ new_status["position"] # ""
         THEN IF IsIntString(new_status["position"])
              THEN [exc |-> "", v |-> PyInt(int(new_status["position"]) * 1000)]
              ELSE [exc |-> "ValueError", v |-> None]
         ELSE [exc |-> "", v |-> None]

\* ------------------------------------------------------- status parser

obligatory == {"status", "duration", "continue", "repeat",
               "repeat_current", "shuffle", "vol_left", "vol_right"}

\* raw_status == "" or raw_status.startswith("cmus-remote")
BadStatus(raw_status) ==
    \/ raw_status = <<>>
    \/ /\ Len(raw_status[1]) > 0
       /\ raw_status[1][1] \in {"cmus-remote", "cmus-remote:"}

\* a seed that takes nothing from self.status
SeedStatusEmpty(status) ==
    [k \in obligatory \cup {"title", "file"} |-> ""]

\* new_status before the line loop: title and file empty, the obligatory
\* keys taken from self.status
SeedStatus(status) ==
    [k \in obligatory \cup {"title", "file"} |->
        IF k \in {"title", "file"} THEN ""
        ELSE IF status = None THEN "" ELSE status[k]]

\* the line loop: [exc, d].  Unpacking line.split(" ", 1) of a line with no
\* space raises ValueError, value[1] of a tag or set line with no value
\* raises IndexError; either ends set_status
RECURSIVE ParseLines(_, _)
ParseLines(d, lines) ==
    IF lines = <<>> THEN [exc |-> "", d |-> d]
    ELSE LET line == Head(lines) IN
         IF Len(line) < 2 THEN [exc |-> "ValueError", d |-> d]
         ELSE LET key == line[1]
                  value == Tail(line)
              IN  IF key \in {"tag", "set"}
                  THEN IF Len(value) < 2 THEN [exc |-> "IndexError", d |-> d]
                       ELSE ParseLines(Put(d, value[1], Join(Tail(value))),
                                       Tail(lines))
                  ELSE ParseLines(Put(d, key, Join(value)), Tail(lines))

\* the end of the else branch of set_status: the cover of the titled status
WithCover(t, c) ==
    [exc |-> "", new_status |-> IF c THEN Put(t, "cover", TempImageName) ELSE t,
     cover |-> c]

\* the title of the parsed status is replaced by get_title
WithTitle(d) == Put(d, "title", get_title(d["title"], d["file"]))

\* the else branch of set_status after the line loop has returned r
AfterLines(r) ==
    IF r.exc # "" THEN [exc |-> r.exc, new_status |-> None, cover |-> FALSE]
    ELSE WithCover(WithTitle(r.d), get_cover(WithTitle(r.d)))

\* set_status up to the call of _status_changed: [exc, new_status, cover]
ParseStatus(status, raw_status) ==
    IF BadStatus(raw_status)
    THEN [exc |-> "", new_status |-> None, cover |-> FALSE]
    ELSE AfterLines(ParseLines(SeedStatus(status), raw_status))

\* ---------------------------------------------------- state diff engine

AllGroups == {"PlaybackStatus", "LoopStatus", "Shuffle", "Metadata", "Volume"}
status_dict ==
    [status |-> "PlaybackStatus", continue |-> "LoopStatus",
     repeat |-> "LoopStatus", repeat_current |-> "LoopStatus",
     shuffle |-> "Shuffle", vol_left |-> "Volume", vol_right |-> "Volume",
     artist |-> "Metadata", title |-> "Metadata", album |-> "Metadata"]

\* a diff that takes every status for the first one
ChangedGroupsOfFirst(status, new_status) ==
    IF new_status = None THEN {} ELSE AllGroups

\* the set changed of _status_changed
ChangedGroups(status, new_status) ==
    IF new_status = None THEN {}
    ELSE IF status = None THEN AllGroups
         ELSE {status_dict[key] : key \in
                 {k \in DOMAIN status_dict :
                     /\ Has(new_status, k)
                     /\ \/ ~Has(status, k)
                        \/ status[k] # new_status[k]}}

\* prop_dict[prop](new_status): [exc, v]
prop_dict(prop, new_status) ==
    CASE prop = "PlaybackStatus" -> [exc |-> "", v |-> get_PlaybackStatus(new_status)]
      [] prop = "LoopStatus" -> [exc |-> "", v |-> get_LoopStatus(new_status)]
      [] prop = "Shuffle" -> [exc |-> "", v |-> get_Shuffle(new_status)]
      [] prop = "Metadata" -> get_Metadata(new_status)
      [] prop = "Volume" -> get_Volume(new_status)

\* show_notification: TRUE when a notification reaches the sink.  Every
\* exception (new_status None) is caught; an empty header shows nothing
show_notification(new_status) ==
    /\ new_status # None
    /\ Has(new_status, "title")
    /\ new_status["title"] # ""

\* self.properties before _set_init_properties has run
NoProperties == [unset |-> TRUE]

\* one call of _status_changed on an adapter whose stored status is status
\* and whose property table is properties:
\*   changed   the diff;  shown: show_notification was called;
\*   notified  a notification reached the sink;
\*   emitted   PropertiesChanged was called and signalled new_props;
\*   exc       what the call raised ("" when nothing)
status_changed_of(changed, properties, new_status) ==
    [changed |-> changed,
     shown |-> "Metadata" \in changed,
     notified |-> "Metadata" \in changed /\ show_notification(new_status)]
    @@
    IF changed = {}
    THEN [emitted |-> FALSE, new_props |-> <<>>, exc |-> "",
          properties |-> properties]
    ELSE IF \E p \in changed : prop_dict(p, new_status).exc # ""
    THEN [emitted |-> FALSE, new_props |-> <<>>, exc |-> "ValueError",
          properties |-> properties]
    ELSE IF properties = NoProperties
    THEN [emitted |-> FALSE, new_props |-> <<>>, exc |-> "AttributeError",
          properties |-> properties]
    ELSE [emitted |-> TRUE,
          new_props |-> [p \in changed |-> prop_dict(p, new_status).v],
          exc |-> "",
          properties |-> [p \in changed |-> prop_dict(p, new_status).v]
                         @@ properties]

status_changed(status, properties, new_status) ==
    status_changed_of(ChangedGroups(status, new_status), properties, new_status)

\* what an adapter holds: self.status, self.properties, and thumb, the track
\* whose cover the temporary file holds ("" for none)
Adapter(st, pr, th) == [status |-> st, properties |-> pr, thumb |-> th]

\* the record of one refresh cycle (one call of set_status)
Cycle(a, raw_status, p) ==
    [raw |-> raw_status, bad |-> BadStatus(raw_status),
     prev_none |-> a.status = None, parsed |-> p.exc = "",
     new_status |-> p.new_status, diffed |-> FALSE, changed |-> {},
     shown |-> FALSE, notified |-> FALSE, emitted |-> FALSE,
     new_props |-> <<>>, stored |-> FALSE, exc |-> p.exc]

\* the file whose cover get_cover has put into the temporary file
Thumb(a, p) == IF p.exc = "" /\ p.cover THEN p.new_status["file"] ELSE a.thumb

\* the end of set_status with c what _status_changed did: an exception of
\* it leaves self.status as it was
set_status_diffed(a, p, cyc, c) ==
    IF c.exc # ""
    THEN [a |-> Adapter(a.status, a.properties, Thumb(a, p)),
          cycle |-> [cyc EXCEPT !.diffed = TRUE, !.changed = c.changed,
                                !.shown = c.shown, !.notified = c.notified,
                                !.exc = c.exc],
          exc |-> c.exc]
    ELSE [a |-> Adapter(p.new_status, c.properties, Thumb(a, p)),
          cycle |-> [cyc EXCEPT !.diffed = TRUE, !.changed = c.changed,
                                !.shown = c.shown, !.notified = c.notified,
                                !.emitted = c.emitted,
                                !.new_props = c.new_props, !.stored = TRUE],
          exc |-> ""]

\* a set_status that drops the stored status when the line loop fails
set_status_dropping(a, p, cyc) ==
    IF p.exc # ""
    THEN [a |-> Adapter(None, a.properties, a.thumb), cycle |-> cyc,
          exc |-> p.exc]
    ELSE IF a.status = None
    THEN [a |-> Adapter(p.new_status, a.properties, Thumb(a, p)),
          cycle |-> [cyc EXCEPT !.stored = TRUE], exc |-> ""]
    ELSE set_status_diffed(a, p, cyc,
             status_changed(a.status, a.properties, p.new_status))

\* a set_status that shows its notification before the line loop is through
set_status_notifying_first(a, p, cyc) ==
    IF p.exc # ""
    THEN [a |-> a, cycle |-> [cyc EXCEPT !.shown = TRUE], exc |-> p.exc]
    ELSE IF a.status = None
    THEN [a |-> Adapter(p.new_status, a.properties, Thumb(a, p)),
          cycle |-> [cyc EXCEPT !.stored = TRUE], exc |-> ""]
    ELSE set_status_diffed(a, p, cyc,
             status_changed(a.status, a.properties, p.new_status))

\* set_status with p the new status the first part has built
set_status_parsed(a, p, cyc) ==
    IF p.exc # "" THEN [a |-> a, cycle |-> cyc, exc |-> p.exc]
    ELSE IF a.status = None
    THEN [a |-> Adapter(p.new_status, a.properties, Thumb(a, p)),
          cycle |-> [cyc EXCEPT !.stored = TRUE], exc |-> ""]
    ELSE set_status_diffed(a, p, cyc,
             status_changed(a.status, a.properties, p.new_status))

set_status_of(a, raw_status, p) ==
    set_status_parsed(a, p, Cycle(a, raw_status, p))

\* set_status(raw_status) on adapter a: [a, cycle, exc]
set_status(a, raw_status) ==
    set_status_of(a, raw_status, ParseStatus(a.status, raw_status))


\* ------------------------------------------------- command dispatcher

\* the commands PlayPause issues
PlayPauseCmds(status) ==
    LET playback_value ==
            IF status # None /\ Has(status, "status") THEN status["status"]
            ELSE "stopped"
    IN  IF playback_value \in {"paused", "stopped"} THEN <<"-p">>
        ELSE IF playback_value = "playing" THEN <<"-u">>
        ELSE <<>>

\* "%+d" % n and "%d" % n
SignedStr(n) == IF n >= 0 THEN "+" \o ToString(n) ELSE ToString(n)

SeekCmds(offset) == <<"-k " \o SignedStr(offset \div 1000)>>

\* position > self.status['duration'] compares an integer with a unicode
\* string: in Python 2 a number is smaller than every string
IntGreaterThanStr(n, s) == FALSE

\* a SetPosition that does not compare the track id
SetPositionCmdsAnyTrack(status, track_id, position) ==
    IF status = None THEN <<>>
    ELSE IF position \div 1000 < 0 THEN <<>>
    ELSE <<"-k " \o ToString(position \div 1000)>>

SetPositionCmds(status, track_id, position) ==
    LET pos == position \div 1000 IN
    IF status = None THEN <<>>
    ELSE IF track_id # get_track_id(status["file"]) THEN <<>>
    ELSE IF pos < 0 THEN <<>>
    ELSE IF IntGreaterThanStr(pos, status["duration"]) THEN <<>>
    ELSE <<"-k " \o ToString(pos)>>

OpenUriCmds(uri) == <<"-c -q " \o uri, "-n">>

\* set_LoopStatus, set_Shuffle, set_Volume: [exc, cmds]
set_LoopStatus(status, value) ==
    IF status = None THEN [exc |-> "", cmds |-> <<>>]
    ELSE IF value = PyStr("None")
         THEN [exc |-> "", cmds |-> <<"-C \"set continue=false\"">>]
    ELSE IF value = PyStr("Track")
         THEN [exc |-> "", cmds |-> <<"-C \"set continue=true\"",
                                      "-C \"set repeat_current=true\"">>]
    ELSE IF value = PyStr("Playlist")
         THEN [exc |-> "", cmds |-> <<"-C \"set continue=true\"",
                                      "-C \"set repeat_current=false\"",
                                      "-C \"set repeat=true\"">>]
    ELSE [exc |-> "", cmds |-> <<>>]

\* value == 'True' of a dbus.Boolean is false: only the strings match
set_Shuffle(status, value) ==
    IF status = None THEN [exc |-> "", cmds |-> <<>>]
    ELSE IF value = PyStr("True")
         THEN [exc |-> "", cmds |-> <<"-C \"set shuffle=true\"">>]
    ELSE IF value = PyStr("False")
         THEN [exc |-> "", cmds |-> <<"-C \"set shuffle=false\"">>]
    ELSE [exc |-> "", cmds |-> <<>>]

\* int(value) of a float: truncation toward zero
Trunc(n, d) == IF n >= 0 THEN n \div d ELSE -((-n) \div d)

\* '-v %d%' % value raises ValueError (incomplete format)
set_Volume(status, value) ==
    IF status = None THEN [exc |-> "", cmds |-> <<>>]
    ELSE LET v == Trunc(value.num, value.den) IN
         IF v < 0 THEN [exc |-> "", cmds |-> <<"-v 0%">>]
         ELSE IF v > 1 THEN [exc |-> "", cmds |-> <<"-v 100%">>]
         ELSE [exc |-> "ValueError", cmds |-> <<>>]

PlayerIface == "org.mpris.MediaPlayer2.Player"
RootIface == "org.mpris.MediaPlayer2"

\* Set before its get_status: [exc, cmds]
SetCmds(status, interface, prop, value) ==
    IF interface = PlayerIface
    THEN CASE prop = "LoopStatus" -> set_LoopStatus(status, value)
           [] prop = "Shuffle" -> set_Shuffle(status, value)
           [] prop = "Volume" -> set_Volume(status, value)
           [] OTHER -> [exc |-> "", cmds |-> <<>>]
    ELSE [exc |-> "", cmds |-> <<>>]

\* a Set that returns without its get_status
SetNeverRefreshes(exc) == FALSE

\* Set ends with self.get_status() unless a setter raised
SetRefreshes(exc) == exc = ""

\* -------------------------------------------------------- environment

\* status dumps of cmus-remote -Q
DumpPlaying ==
    << <<"status", "playing">>, <<"file", "/m/a.mp3">>, <<"duration", "200">>,
       <<"position", "10">>, <<"tag", "artist", "A/B">>,
       <<"tag", "title", "One">>, <<"set", "continue", "true">>,
       <<"set", "repeat", "false">>, <<"set", "repeat_current", "false">>,
       <<"set", "shuffle", "true">>, <<"set", "vol_left", "50">>,
       <<"set", "vol_right", "50">> >>
DumpStopped ==
    << <<"status", "stopped">>, <<"set", "continue", "false">>,
       <<"set", "repeat", "false">>, <<"set", "repeat_current", "false">>,
       <<"set", "shuffle", "false">>, <<"set", "vol_left", "60">>,
       <<"set", "vol_right", "60">> >>
ErrorEcho == << <<"cmus-remote:", "cmus", "is", "not", "running">> >>

\* what cmus_command("-Q") returns: out is stdout, err tells that stderr was
\* not empty.  While cmus runs the query prints a dump; once cmus is gone
\* cmus-remote reports an error and prints no usable status
NoQuery == [out |-> <<>>, err |-> FALSE, none |-> TRUE]
QueryResultsUp ==
    {[out |-> d, err |-> FALSE, none |-> FALSE] : d \in {DumpPlaying, DumpStopped}}
QueryResultsGone ==
    {[out |-> d, err |-> TRUE, none |-> FALSE] : d \in {<<>>, ErrorEcho}}
QueryResults == QueryResultsUp \cup QueryResultsGone
\* the dump of a stopped cmus that has applied the set commands of
\* set_LoopStatus(v)
DumpLoop(v) ==
    << <<"status", "stopped">>,
       <<"set", "continue", IF v = "None" THEN "false" ELSE "true">>,
       <<"set", "repeat", IF v = "Playlist" THEN "true" ELSE "false">>,
       <<"set", "repeat_current", IF v = "Track" THEN "true" ELSE "false">>,
       <<"set", "shuffle", "false">>, <<"set", "vol_left", "60">>,
       <<"set", "vol_right", "60">> >>
LoopValues == {"None", "Track", "Playlist"}
QueryResultsLoop ==
    {[out |-> DumpLoop(v), err |-> FALSE, none |-> FALSE] : v \in LoopValues}
\* the dump of a stopped cmus that reports a position
DumpStoppedAt == DumpStopped \o << <<"position", "0">> >>
QueryResultsAt ==
    QueryResultsUp \cup {[out |-> DumpStoppedAt, err |-> FALSE, none |-> FALSE]}

\* status texts handed to SetStatus: the arguments cmus gives its
\* status_display_program, and texts of other callers
ArgTrack ==
    << <<"status", "paused">>, <<"file", "/m/b.mp3">>, <<"artist", "A/B">>,
       <<"title", "Two">> >>
ArgNoValue == << <<"tag", "artist">> >>
ArgBadVolume == << <<"title", "Three">>, <<"set", "vol_left", "x">> >>
StatusArgs == {<<>>, ArgTrack, ArgNoValue, ArgBadVolume}
\* texts a bus client hands to SetStatus: a track without a title tag, and
\* blocks with a line that has no space or no value
ArgFileOnly == << <<"status", "paused">>, <<"file", "/m/b.mp3">> >>
ArgNoSpace == << <<"status", "paused">>, <<"paused">>, <<"title", "Two">> >>
ArgTagOnly == << <<"status", "paused">>, <<"tag", "artist">>, <<"title", "Two">> >>
ArgRetitled ==
    << <<"status", "paused">>, <<"file", "/m/b.mp3">>, <<"artist", "A/B">>,
       <<"title", "One">> >>
IntakeArgs == {ArgTrack, ArgFileOnly, ArgNoSpace, ArgTagOnly, ArgRetitled}

SetCalls ==
    {[interface |-> PlayerIface, prop |-> "LoopStatus", value |-> PyStr(v)] :
        v \in {"None", "Track", "Playlist"}}
    \cup {[interface |-> PlayerIface, prop |-> "Shuffle", value |-> PyBool(b)] :
        b \in BOOLEAN}
    \cup {[interface |-> PlayerIface, prop |-> "Volume", value |-> PyFloat(n, 100)] :
        n \in {-150, 50, 150, 250}}
    \cup {[interface |-> RootIface, prop |-> "Fullscreen", value |-> PyBool(TRUE)]}

SeekOffsets == {-500, 1500}
TrackIds == {get_track_id("/m/a.mp3"), "/org/mpris/MediaPlayer2/TrackList/NoTrack"}
Positions == {-1000, 5000, 300000000}
Uris == {"http://r/s"}


\* --------------------------------------------------------------- state

VARIABLES
    pc,          \* where each launch is: "absent" (not part of the session),
                 \* "idle" (not started), "init" (no instance found: about to
                 \* construct the adapter), "running" (loop.run), "stopping"
                 \* (loop.quit called), "exited", "forwarded" (exited after
                 \* SetStatus), "crashed" (an exception left main)
    status,      \* self.status
    properties,  \* self.properties['org.mpris.MediaPlayer2.Player']
    thumb,       \* the track whose cover self.tempimage holds
    tempimage,   \* self.tempimage is open
    notify,      \* Notify.init was called and Notify.uninit was not
    exported,    \* the object is exported at /org/mpris/MediaPlayer2
    timer,       \* the timeout source of the synchronization timer exists
    pending,     \* quit_script callbacks scheduled with timeout_add(0, ...)
    owner,       \* the owner of org.mpris.MediaPlayer2.cmus.soundmenu, or 0
    queue,       \* the connections waiting in the queue of that name
    player,      \* cmus itself: "up", or "gone" (cmus-remote reports an error)
    known,       \* history: the last status stored that was not None
    last         \* the call handled last: who, what, the commands issued,
                 \* the refresh cycles run, what was raised

vars == <<pc, status, known, properties, thumb, tempimage, notify, exported, timer,
          pending, owner, queue, player, last>>

NoArgs == [none |-> TRUE]
NoCall == [proc |-> 0, call |-> "", args |-> NoArgs, cmds |-> <<>>, nerr |-> 0,
           cycles |-> <<>>, exc |-> "", found |-> FALSE,
           init_notified |-> FALSE]
Call(p, name, cmds, nerr, cycles, exc) ==
    [proc |-> p, call |-> name, args |-> NoArgs, cmds |-> cmds, nerr |-> nerr,
     cycles |-> cycles, exc |-> exc, found |-> FALSE, init_notified |-> FALSE]
\* a call with the arguments the caller gave
CallWith(p, name, args, cmds, nerr, cycles, exc) ==
    [Call(p, name, cmds, nerr, cycles, exc) EXCEPT !.args = args]

InitSession(launched) ==
    /\ pc = [p \in Procs |-> IF p \in launched THEN "idle" ELSE "absent"]
    /\ status = [p \in Procs |-> None]
    /\ known = [p \in Procs |-> None]
    /\ properties = [p \in Procs |-> NoProperties]
    /\ thumb = [p \in Procs |-> ""]
    /\ tempimage = [p \in Procs |-> FALSE]
    /\ notify = [p \in Procs |-> FALSE]
    /\ exported = [p \in Procs |-> FALSE]
    /\ timer = [p \in Procs |-> FALSE]
    /\ pending = [p \in Procs |-> 0]
    /\ owner = 0
    /\ queue = <<>>
    /\ player \in {"up", "gone"}
    /\ last = NoCall

\* a session with one launch, and a session in which every launch happens
Init == InitSession({1})
InitLaunches == InitSession(Procs)

\* the instance a call to the well-known name reaches
Live(p) == owner = p /\ pc[p] = "running" /\ exported[p]

\* cmus_command schedules quit_script once for every command that wrote to
\* stderr: every command does once cmus is gone
cmus_command_errors(cmds) == IF player = "gone" THEN Len(cmds) ELSE 0
\* the outputs of cmus_command("-Q")
Queries == IF player = "gone" THEN QueryResultsGone ELSE QueryResultsUp
\* timeout_add(0, self.quit_script) n more times: the model stops at
\* MaxPending waiting callbacks
CanSchedule(p, n) == pending[p] + n <= MaxPending

Store(p, a) ==
    /\ status' = [status EXCEPT ![p] = a.status]
    /\ known' = IF a.status = None THEN known
              ELSE [known EXCEPT ![p] = a.status]
    /\ properties' = [properties EXCEPT ![p] = a.properties]
    /\ thumb' = [thumb EXCEPT ![p] = a.thumb]
Self(p) == Adapter(status[p], properties[p], thumb[p])

\* ------------------------------------------------------------- launch

\* SetStatus(arg) on adapter a: [a, cycles, exc]
Cycles(r) == [a |-> r.a, cycles |-> <<r.cycle>>, exc |-> r.exc]

SetStatusCall(a, arg) ==
    IF Len(arg) > 0 THEN Cycles(set_status(a, arg))
    ELSE [a |-> a, cycles |-> <<>>, exc |-> ""]

\* another_instance returns True when the call of SetStatus returned, False
\* on every DBusException (no owner of the name, no such object, or an
\* exception raised by the SetStatus of the running instance)
another_instance(reached, exc) == reached /\ exc = ""

\* main of a launch that finds no instance to call
LaunchAlone(p) ==
    /\ pc[p] = "idle"
    /\ ~(owner # 0 /\ Live(owner))
    /\ pc' = [pc EXCEPT ![p] = IF another_instance(FALSE, "") THEN "forwarded"
                               ELSE "init"]
    /\ last' = Call(p, "main", <<>>, 0, <<>>, "")
    /\ UNCHANGED <<status, known, properties, thumb, tempimage, notify, exported,
                   timer, pending, owner, queue, player>>

\* main of a launch that reaches the running instance: SetStatus(arg) runs
\* there, and the launch exits when another_instance returns True
LaunchForward(p, arg) ==
    /\ pc[p] = "idle"
    /\ owner # 0 /\ Live(owner)
    /\ \E r \in {SetStatusCall(Self(owner), arg)} :
           /\ Store(owner, r.a)
           /\ pc' = [pc EXCEPT ![p] = IF another_instance(TRUE, r.exc)
                                      THEN "forwarded" ELSE "init"]
           /\ last' = [Call(p, "main", <<>>, 0, r.cycles, r.exc)
                         EXCEPT !.found = TRUE]
    /\ UNCHANGED <<tempimage, notify, exported, timer, pending, owner, queue,
                   player>>

\* the table _set_init_properties builds when no getter raises
InitTable(st, md, vol, position) ==
    [PlaybackStatus |-> get_PlaybackStatus(st),
     LoopStatus |-> get_LoopStatus(st),
     Shuffle |-> get_Shuffle(st),
     Metadata |-> md.v, Volume |-> vol.v, Position |-> position]

\* _set_init_properties after the second query of get_Position, r what its
\* set_status did
init_requeried(table, r) ==
    IF r.exc # ""
    THEN [a |-> r.a, cycles |-> <<r.cycle>>, exc |-> r.exc, cmds |-> <<"-Q">>]
    ELSE [a |-> Adapter(r.a.status, table, r.a.thumb),
          cycles |-> <<r.cycle>>, exc |-> "", cmds |-> <<"-Q">>]

\* whether get_Position queries again: the status has no position
Requeries(st, md, vol, pos) ==
    /\ st # None
    /\ md.exc = "" /\ vol.exc = ""
    /\ pos.exc = "" /\ pos.v = None

init_properties_of(a, q2, md, vol, pos) ==
    IF md.exc # "" THEN [a |-> a, cycles |-> <<>>, exc |-> md.exc, cmds |-> <<>>]
    ELSE IF vol.exc # ""
    THEN [a |-> a, cycles |-> <<>>, exc |-> vol.exc, cmds |-> <<>>]
    ELSE IF pos.exc # ""
    THEN [a |-> a, cycles |-> <<>>, exc |-> pos.exc, cmds |-> <<>>]
    ELSE IF Requeries(a.status, md, vol, pos)
    THEN init_requeried(InitTable(a.status, md, vol, None),
                        set_status(a, q2.out))
    ELSE [a |-> Adapter(a.status, InitTable(a.status, md, vol, pos.v), a.thumb),
          cycles |-> <<>>, exc |-> "", cmds |-> <<>>]

\* _set_init_properties: the getters in the order of the dict display;
\* get_Position queries again when the status has no position, and returns
\* None then, for it looks at the status it was given.
\* [a, cycles, exc, cmds]
set_init_properties(a, q2) ==
    init_properties_of(a, q2, get_Metadata(a.status), get_Volume(a.status),
                       get_Position_value(a.status))

\* what __init__ has done when _set_init_properties is due
FirstStatus(q1) == set_status(Adapter(None, NoProperties, ""), q1.out)

\* whether __init__ reaches the second query of get_Position
NeedsRequery(r) ==
    /\ r.exc = ""
    /\ Requeries(r.a.status, get_Metadata(r.a.status), get_Volume(r.a.status),
                 get_Position_value(r.a.status))

\* CmusSoundMenu.__init__ and the rest of main up to loop.run.  An
\* exception leaves main: the launch ends without a bus name and a loop.
\* BusName queues the request when the name has an owner
ConstructFrom(p, q1, q2, queries) ==
    /\ pc[p] = "init"
    /\ q1 \in queries
    /\ \E r1 \in {FirstStatus(q1)} :
       /\ IF NeedsRequery(r1) THEN q2 \in queries ELSE q2 = NoQuery
       /\ \E r2 \in {IF r1.exc # ""
                     THEN [a |-> r1.a, cycles |-> <<>>, exc |-> r1.exc,
                           cmds |-> <<>>]
                     ELSE set_init_properties(r1.a, q2)} :
          \E nerr \in {cmus_command_errors(<<"-Q">> \o r2.cmds)} :
           /\ CanSchedule(p, nerr)
           /\ last' = [Call(p, "__init__", <<"-Q">> \o r2.cmds, nerr,
                            <<r1.cycle>> \o r2.cycles, r2.exc)
                         EXCEPT !.init_notified =
                                   (r1.exc = "" /\ show_notification(r1.a.status))]
           /\ IF r2.exc # ""
              THEN /\ pc' = [pc EXCEPT ![p] = "crashed"]
                   /\ UNCHANGED <<status, known, properties, thumb, tempimage, notify,
                                  exported, timer, pending, owner, queue>>
              ELSE /\ pc' = [pc EXCEPT ![p] = "running"]
                   /\ Store(p, r2.a)
                   /\ tempimage' = [tempimage EXCEPT ![p] = TRUE]
                   /\ notify' = [notify EXCEPT ![p] = TRUE]
                   /\ exported' = [exported EXCEPT ![p] = TRUE]
                   /\ timer' = [timer EXCEPT ![p] = TRUE]
                   /\ pending' = [pending EXCEPT ![p] = nerr]
                   /\ owner' = IF owner = 0 THEN p ELSE owner
                   /\ queue' = IF owner = 0 THEN queue ELSE Append(queue, p)
    /\ UNCHANGED player

Construct(p, q1, q2) == ConstructFrom(p, q1, q2, Queries)

\* ------------------------------------------------------------ refresh

\* get_status: cmus_command("-Q") and set_status of its output
get_status(a, q) == set_status(a, q.out)

\* whether the GLib timeout source of the synchronization timer stays after
\* a call of its callback: get_status returns None, which removes it
TimerRepeats == FALSE

\* the synchronization timer fires
TimerFire(p, q) ==
    /\ pc[p] = "running"
    /\ timer[p]
    /\ q \in Queries
    /\ CanSchedule(p, cmus_command_errors(<<"-Q">>))
    /\ \E r \in {get_status(Self(p), q)} :
       /\ Store(p, r.a)
       /\ last' = Call(p, "timer", <<"-Q">>, cmus_command_errors(<<"-Q">>),
                       <<r.cycle>>, r.exc)
    /\ timer' = [timer EXCEPT ![p] = TimerRepeats]
    /\ pending' = [pending EXCEPT ![p] = @ + cmus_command_errors(<<"-Q">>)]
    /\ UNCHANGED <<pc, tempimage, notify, exported, owner, queue, player>>

\* SetStatus called over the bus by a client that is no launch of the script
CallSetStatus(p, arg) ==
    /\ Live(p)
    /\ \E r \in {SetStatusCall(Self(p), arg)} :
       /\ Store(p, r.a)
       /\ last' = Call(p, "SetStatus", <<>>, 0, r.cycles, r.exc)
    /\ UNCHANGED <<pc, tempimage, notify, exported, timer, pending, owner,
                   queue, player>>

\* Set(interface, prop, value); args is what the history keeps of c
SetCallFrom(p, c, q, args, queries) ==
    /\ Live(p)
    /\ \E s \in {SetCmds(status[p], c.interface, c.prop, c.value)} :
       IF SetRefreshes(s.exc)
       THEN /\ q \in queries
            /\ \E cmds \in {s.cmds \o <<"-Q">>} :
               \E r \in {get_status(Self(p), q)} :
                  /\ CanSchedule(p, cmus_command_errors(cmds))
                  /\ Store(p, r.a)
                  /\ last' = CallWith(p, "Set", args, cmds,
                                      cmus_command_errors(cmds),
                                      <<r.cycle>>, r.exc)
                  /\ pending' = [pending EXCEPT
                                   ![p] = @ + cmus_command_errors(cmds)]
       ELSE /\ q = NoQuery
            /\ CanSchedule(p, cmus_command_errors(s.cmds))
            /\ last' = CallWith(p, "Set", args, s.cmds,
                                cmus_command_errors(s.cmds), <<>>, s.exc)
            /\ pending' = [pending EXCEPT ![p] = @ + cmus_command_errors(s.cmds)]
            /\ UNCHANGED <<status, known, properties, thumb>>
    /\ UNCHANGED <<pc, tempimage, notify, exported, timer, owner, queue, player>>

SetCall(p, c, q, args) == SetCallFrom(p, c, q, args, Queries)
CallSet(p, c, q) == SetCall(p, c, q, NoArgs)
CallSetWith(p, c, q) == SetCall(p, c, q, c)

\* a method of the player interface: it issues its commands and returns
DispatchWith(p, name, args, cmds) ==
    /\ Live(p)
    /\ CanSchedule(p, cmus_command_errors(cmds))
    /\ last' = CallWith(p, name, args, cmds, cmus_command_errors(cmds), <<>>, "")
    /\ pending' = [pending EXCEPT ![p] = @ + cmus_command_errors(cmds)]
    /\ UNCHANGED <<pc, status, known, properties, thumb, tempimage, notify, exported,
                   timer, owner, queue, player>>

Dispatch(p, name, cmds) == DispatchWith(p, name, NoArgs, cmds)

CallNext(p) == Dispatch(p, "Next", <<"-n">>)
CallPrevious(p) == Dispatch(p, "Previous", <<"-r">>)
CallPause(p) == Dispatch(p, "Pause", <<"-u">>)
CallPlayPause(p) == Dispatch(p, "PlayPause", PlayPauseCmds(status[p]))
CallStop(p) == Dispatch(p, "Stop", <<"-s">>)
CallPlay(p) == Dispatch(p, "Play", <<"-p">>)
CallSeek(p, offset) == Dispatch(p, "Seek", SeekCmds(offset))
CallSetPosition(p, track_id, position) ==
    Dispatch(p, "SetPosition", SetPositionCmds(status[p], track_id, position))
CallSeekWith(p, offset) ==
    DispatchWith(p, "Seek", [offset |-> offset], SeekCmds(offset))
CallSetPositionWith(p, track_id, position) ==
    DispatchWith(p, "SetPosition",
                 [track_id |-> track_id, position |-> position],
                 SetPositionCmds(status[p], track_id, position))
CallOpenUri(p, uri) == Dispatch(p, "OpenUri", OpenUriCmds(uri))

\* Quit: the quit command, then timeout_add(0, self.quit_script)
CallQuit(p) ==
    /\ Live(p)
    /\ CanSchedule(p, cmus_command_errors(<<"-C q">>) + 1)
    /\ last' = Call(p, "Quit", <<"-C q">>, cmus_command_errors(<<"-C q">>),
                    <<>>, "")
    /\ pending' = [pending EXCEPT ![p] = @ + cmus_command_errors(<<"-C q">>) + 1]
    /\ UNCHANGED <<pc, status, known, properties, thumb, tempimage, notify, exported,
                   timer, owner, queue, player>>

\* ----------------------------------------------------------- shutdown

\* a quit_script that unexports the object and leaves the loop running
quit_script_keeps_loop(isExported, state) ==
    IF isExported
    THEN [exc |-> "", exported |-> FALSE, pc |-> state,
          tempimage |-> FALSE, notify |-> FALSE]
    ELSE [exc |-> "LookupError", exported |-> FALSE, pc |-> state,
          tempimage |-> tempimage, notify |-> notify]

\* quit_script.  remove_from_connection raises LookupError when the object
\* is exported nowhere, which ends the call; loop.quit stops a running loop
quit_script(isExported, state) ==
    IF isExported
    THEN [exc |-> "", exported |-> FALSE,
          pc |-> IF state = "running" THEN "stopping" ELSE state,
          tempimage |-> FALSE, notify |-> FALSE]
    ELSE [exc |-> "LookupError", exported |-> FALSE, pc |-> state,
          tempimage |-> tempimage, notify |-> notify]

\* the main loop calls a scheduled quit_script; the callback returns None
\* and is removed
QuitScript(p) ==
    /\ pc[p] \in {"running", "stopping"}
    /\ pending[p] > 0
    /\ \E r \in {quit_script(exported[p], pc[p])} :
       /\ pending' = [pending EXCEPT ![p] = @ - 1]
       /\ last' = Call(p, "quit_script", <<>>, 0, <<>>, r.exc)
       /\ exported' = [exported EXCEPT ![p] = r.exported]
       /\ pc' = [pc EXCEPT ![p] = r.pc]
       /\ IF r.exc = ""
          THEN /\ tempimage' = [tempimage EXCEPT ![p] = r.tempimage]
               /\ notify' = [notify EXCEPT ![p] = r.notify]
          ELSE UNCHANGED <<tempimage, notify>>
    /\ UNCHANGED <<status, known, properties, thumb, timer, owner, queue, player>>

RECURSIVE Without(_, _)
Without(q, p) ==
    IF q = <<>> THEN <<>>
    ELSE IF Head(q) = p THEN Without(Tail(q), p)
    ELSE <<Head(q)>> \o Without(Tail(q), p)

\* loop.run returns and the process ends: the callbacks still waiting are
\* dropped and the bus gives the name to the next connection in its queue
Exit(p) ==
    /\ pc[p] = "stopping"
    /\ pc' = [pc EXCEPT ![p] = "exited"]
    /\ pending' = [pending EXCEPT ![p] = 0]
    /\ timer' = [timer EXCEPT ![p] = FALSE]
    /\ owner' = IF owner # p THEN owner
                ELSE IF queue = <<>> THEN 0 ELSE Head(queue)
    /\ queue' = IF owner # p THEN Without(queue, p)
                ELSE IF queue = <<>> THEN <<>> ELSE Tail(queue)
    /\ last' = Call(p, "exit", <<>>, 0, <<>>, "")
    /\ UNCHANGED <<status, known, properties, thumb, tempimage, notify, exported,
                   player>>

\* cmus ends, or is started again
PlayerExit ==
    /\ player = "up"
    /\ player' = "gone"
    /\ last' = NoCall
    /\ UNCHANGED <<pc, status, known, properties, thumb, tempimage, notify, exported,
                   timer, pending, owner, queue>>

PlayerStart ==
    /\ player = "gone"
    /\ player' = "up"
    /\ last' = NoCall
    /\ UNCHANGED <<pc, status, known, properties, thumb, tempimage, notify, exported,
                   timer, pending, owner, queue>>

\* ------------------------------------------------------ specifications

DoLaunchAlone == \E p \in Procs : LaunchAlone(p)
DoLaunchForward == \E p \in Procs : \E arg \in StatusArgs : LaunchForward(p, arg)
DoConstruct ==
    \E p \in Procs : \E q1 \in QueryResults : \E q2 \in QueryResults \cup {NoQuery} :
        Construct(p, q1, q2)
DoTimerFire == \E p \in Procs : \E q \in QueryResults : TimerFire(p, q)
DoSetStatus == \E p \in Procs : \E arg \in StatusArgs : CallSetStatus(p, arg)
DoSet ==
    \E p \in Procs : \E c \in SetCalls : \E q \in QueryResults \cup {NoQuery} :
        CallSet(p, c, q)
DoNext == \E p \in Procs : CallNext(p)
DoPrevious == \E p \in Procs : CallPrevious(p)
DoPause == \E p \in Procs : CallPause(p)
DoPlayPause == \E p \in Procs : CallPlayPause(p)
DoStop == \E p \in Procs : CallStop(p)
DoPlay == \E p \in Procs : CallPlay(p)
DoSeek == \E p \in Procs : \E offset \in SeekOffsets : CallSeek(p, offset)
DoSetPosition ==
    \E p \in Procs : \E t \in TrackIds : \E pos \in Positions :
        CallSetPosition(p, t, pos)
DoOpenUri == \E p \in Procs : \E uri \in Uris : CallOpenUri(p, uri)
DoQuit == \E p \in Procs : CallQuit(p)
DoQuitScript == \E p \in Procs : QuitScript(p)
DoExit == \E p \in Procs : Exit(p)

\* one launch, then the calls of the bus clients and the main loop's callbacks
Next ==
    \/ DoLaunchAlone
    \/ DoConstruct
    \/ DoTimerFire
    \/ DoSetStatus
    \/ DoSet
    \/ DoNext
    \/ DoPrevious
    \/ DoPause
    \/ DoPlayPause
    \/ DoStop
    \/ DoPlay
    \/ DoSeek
    \/ DoSetPosition
    \/ DoOpenUri
    \/ DoQuit
    \/ DoQuitScript
    \/ DoExit
    \/ PlayerExit
    \/ PlayerStart

Spec == Init /\ [][Next]_vars

\* every launch of the session, the forwarded status texts, the timers and
\* the shutdown of the instances
NextLaunches ==
    \/ DoLaunchAlone
    \/ DoLaunchForward
    \/ DoConstruct
    \/ DoTimerFire
    \/ DoQuit
    \/ DoQuitScript
    \/ DoExit
    \/ PlayerExit
    \/ PlayerStart

SpecLaunches == InitLaunches /\ [][NextLaunches]_vars

\* the calls that take arguments, with the arguments kept in the history
DoSetWith ==
    \E p \in Procs : \E c \in SetCalls : \E q \in QueryResults \cup {NoQuery} :
        CallSetWith(p, c, q)
DoSeekWith == \E p \in Procs : \E offset \in SeekOffsets : CallSeekWith(p, offset)
DoSetPositionWith ==
    \E p \in Procs : \E t \in TrackIds : \E pos \in Positions :
        CallSetPositionWith(p, t, pos)

\* one launch, the status intakes, and the calls that take arguments
NextCalls ==
    \/ DoLaunchAlone
    \/ DoConstruct
    \/ DoTimerFire
    \/ DoSetStatus
    \/ DoSetWith
    \/ DoSeekWith
    \/ DoSetPositionWith
    \/ DoQuitScript
    \/ DoExit
    \/ PlayerExit
    \/ PlayerStart

SpecCalls == Init /\ [][NextCalls]_vars

\* one launch and what reaches set_status: the queries of the timer and the
\* texts of SetStatus
DoSetStatusIntake ==
    \E p \in Procs : \E arg \in IntakeArgs : CallSetStatus(p, arg)
\* Set of LoopStatus with a player that applies the commands and reports
\* them in the dump of the query that follows
DoSetLoop ==
    \E p \in Procs : \E v \in LoopValues :
        \E q \in QueryResultsLoop \cup QueryResultsGone :
            SetCallFrom(p, [interface |-> PlayerIface, prop |-> "LoopStatus",
                            value |-> PyStr(v)],
                        q,
                        [interface |-> PlayerIface, prop |-> "LoopStatus",
                         value |-> PyStr(v)],
                        IF player = "gone" THEN QueryResultsGone
                        ELSE {[out |-> DumpLoop(v), err |-> FALSE,
                               none |-> FALSE]})
NextLoop ==
    \/ DoLaunchAlone
    \/ DoConstruct
    \/ DoSetLoop
    \/ DoQuitScript
    \/ DoExit
    \/ PlayerExit
    \/ PlayerStart
SpecLoop == Init /\ [][NextLoop]_vars

\* the constructor with the queries answered from QueryResultsAt as well
DoConstructIntake ==
    \E p \in Procs : \E q1 \in QueryResultsAt \cup QueryResultsGone :
        \E q2 \in QueryResultsAt \cup QueryResultsGone \cup {NoQuery} :
            ConstructFrom(p, q1, q2, IF player = "gone" THEN QueryResultsGone
                                     ELSE QueryResultsAt)
NextIntake ==
    \/ DoLaunchAlone
    \/ DoConstructIntake
    \/ DoTimerFire
    \/ DoSetStatusIntake
    \/ DoQuitScript
    \/ DoExit
    \/ PlayerExit
    \/ PlayerStart
SpecIntake == Init /\ [][NextIntake]_vars

\* the main loop dispatches a timeout source that is ready, and loop.run
\* returns once loop.quit was called
Fairness == \A p \in Procs : WF_vars(QuitScript(p)) /\ WF_vars(Exit(p))
SpecFair == Init /\ [][Next]_vars /\ Fairness

\* -------------------------------------------------------------- claims

\* the refresh cycles of the call handled last
LastCycles == {last.cycles[i] : i \in 1..Len(last.cycles)}
\* the commands of the call handled last that are no status query
LastCommands == {i \in 1..Len(last.cmds) : last.cmds[i] # "-Q"}
\* the call handled last ended with a status query given to set_status
LastRefreshed ==
    /\ Len(last.cmds) > 0
    /\ last.cmds[Len(last.cmds)] = "-Q"
    /\ Len(last.cycles) = 1
Adapters == {p \in Procs : pc[p] = "running"}

\* C1: at most one launch of a session is running as the instance; every
\* other launch has forwarded its text and exited.  Two launches that both
\* look for an instance before either has registered both construct one.
C1_SingleInstance == \A p, q \in Adapters : p = q

\* C2: a launch that finds a registered instance calls its SetStatus and
\* exits without an adapter, whatever SetStatus does.  When SetStatus
\* raises, the launch goes on to construct an adapter.
C2_ForwardAndExit ==
    (last.call = "main" /\ last.found) => pc[last.proc] = "forwarded"

\* C3: a valid block accepted while the stored status is None has all five
\* groups in its diff and emits PropertiesChanged with them
C3_FirstObservationAnnounced ==
    \A c \in LastCycles :
        (c.prev_none /\ ~c.bad /\ c.parsed) =>
            (c.changed = AllGroups /\ c.emitted /\ DOMAIN c.new_props = AllGroups)

\* the values the getters give for the stored status
Mapped(st) ==
    [PlaybackStatus |-> get_PlaybackStatus(st), LoopStatus |-> get_LoopStatus(st),
     Shuffle |-> get_Shuffle(st), Metadata |-> get_Metadata(st).v,
     Volume |-> get_Volume(st).v, Position |-> get_Position_value(st).v]
MapperDefined(st) ==
    get_Metadata(st).exc = "" /\ get_Volume(st).exc = ""
        /\ get_Position_value(st).exc = ""

\* C4: what Get and GetAll return for the six properties of the player
\* interface is the mapper's value for the stored status
C4_ServedEqualsMapped ==
    \A p \in Procs :
        (Live(p) /\ MapperDefined(status[p])) =>
            \A g \in DOMAIN Mapped(status[p]) :
                properties[p][g] = Mapped(status[p])[g]

PlayerCalls == {"Next", "Previous", "Pause", "Play", "Stop", "PlayPause",
                "Seek", "SetPosition", "OpenUri"}

\* C5 as stated: every call of the player interface, and every Set, that
\* dispatched a command ended with a status refresh
C5_EveryCommandRefreshed ==
    (last.call \in PlayerCalls \cup {"Set"} /\ LastCommands # {}) => LastRefreshed

\* C5 as amended: a Set that dispatched a command ended with a status
\* refresh; the calls of the player interface run no refresh
C5_SetCommandRefreshed ==
    /\ (last.call = "Set" /\ LastCommands # {}) => LastRefreshed
    /\ last.call \in PlayerCalls =>
           (last.cycles = <<>> /\ \A i \in 1..Len(last.cmds) : last.cmds[i] # "-Q")

\* a Set of LoopStatus to Track has dispatched its two commands and refreshed
C5_Witness ==
    /\ last.call = "Set"
    /\ Cardinality(LastCommands) = 2
    /\ LastRefreshed

\* C6: after a firing of the refresh timer of a running adapter another
\* firing is scheduled
C6_TimerStaysScheduled ==
    (last.call = "timer" /\ pc[last.proc] = "running") => timer[last.proc]

\* the adapter of launch p is off the bus and its loop is not running
TornDown(p) == ~exported[p] /\ pc[p] # "running"
\* the call handled last had a command report an error, or was Quit
ShutdownDue(p) == last.proc = p /\ (last.nerr > 0 \/ last.call = "Quit")
\* no command of the call handled last was issued twice
NoRetry ==
    \A i, j \in 1..Len(last.cmds) : last.cmds[i] = last.cmds[j] => i = j

\* C7: once a command has reported an error, or Quit was called, the
\* adapter is eventually torn down, and a call in which a command failed
\* issues no command a second time
C7_ErrorLeadsToShutdown ==
    /\ \A p \in Procs : [](ShutdownDue(p) => <>TornDown(p))
    /\ [](last.nerr > 0 => NoRetry)

\* quit_script has run after a failed command or Quit and torn the adapter down
C7_Witness ==
    /\ last.call = "quit_script"
    /\ last.exc = ""
    /\ pc[last.proc] = "stopping"
    /\ TornDown(last.proc)

\* C8: an empty text or an error echo gives None, which is stored, with no
\* signal and no notification; every other text gives a status
C8_OnlyUnusableIsNone ==
    \A c \in LastCycles :
        IF c.bad
        THEN c.new_status = None /\ c.stored /\ ~c.emitted /\ ~c.notified
        ELSE c.parsed /\ c.new_status # None

\* C9: in a cycle that ran the diff, a notification reached the sink iff
\* Metadata is in the diff, and PropertiesChanged was emitted iff the diff
\* is not empty, with the getters' values for exactly the groups of the diff
C9_DiffDrivesConsumers ==
    \A c \in LastCycles :
        c.diffed =>
            /\ c.notified <=> "Metadata" \in c.changed
            /\ c.emitted <=> c.changed # {}
            /\ c.emitted =>
                   /\ DOMAIN c.new_props = c.changed
                   /\ \A g \in c.changed :
                          c.new_props[g] = prop_dict(g, c.new_status).v

\* C10: Next, Previous, Pause, Play, Stop and PlayPause issue one command
\* each; PlayPause issues -p when paused or stopped and -u when playing
C10_OneCommandEach ==
    /\ last.call \in {"Next", "Previous", "Pause", "Play", "Stop", "PlayPause"}
           => Len(last.cmds) = 1
    /\ (last.call = "PlayPause" /\ status[last.proc] # None) =>
           /\ status[last.proc]["status"] \in {"paused", "stopped"}
                  => last.cmds = <<"-p">>
           /\ status[last.proc]["status"] = "playing" => last.cmds = <<"-u">>

\* the position of the SetPosition handled last lies outside the track: it
\* is negative, or beyond the duration the stored status gives
PositionOutOfRange ==
    \/ last.args.position < 0
    \/ /\ IsIntString(status[last.proc]["duration"])
       /\ last.args.position \div 1000 > int(status[last.proc]["duration"])

\* C11: SetPosition with a position below 0 or beyond the duration of the
\* current track issues no command and raises nothing
C11_OutOfRangeDropped ==
    (last.call = "SetPosition" /\ status[last.proc] # None /\ PositionOutOfRange)
        => (last.cmds = <<>> /\ last.exc = "")

\* the SetPosition handled last named another track than the stored one, or
\* found no stored status
StaleSetPosition(st, call) ==
    /\ call.call = "SetPosition"
    /\ \/ st = None
       \/ call.args.track_id # get_track_id(st["file"])

\* C12: SetPosition with a track id that is not the one of the stored file,
\* or with no stored status, issues no command and leaves the stored status
\* and the published properties as they were
C12_StaleSetPositionIsNoOp ==
    [][StaleSetPosition(status[last'.proc], last') =>
          /\ last'.cmds = <<>>
          /\ status' = status
          /\ properties' = properties]_vars

\* a SetPosition for another track than the stored one was handled
C12_Witness ==
    /\ last.call = "SetPosition"
    /\ status[last.proc] # None
    /\ last.args.track_id # get_track_id(status[last.proc]["file"])
    /\ last.args.position = 5000
    /\ last.cmds = <<>>

\* the Set recorded by step: a Set of prop on the player interface, handled
\* by an adapter whose stored status was not None when the call came in
SetOfStored(st, call, prop) ==
    /\ call.call = "Set"
    /\ call.args # NoArgs
    /\ call.args.interface = PlayerIface
    /\ call.args.prop = prop
    /\ st # None

Issued(cmds, cmd) == \E i \in 1..Len(cmds) : cmds[i] = cmd

\* the 'set' command that carries the requested value
ReflectingCommand(prop, value) ==
    CASE prop = "LoopStatus" /\ value = PyStr("None") -> "-C \"set continue=false\""
      [] prop = "LoopStatus" /\ value = PyStr("Track") -> "-C \"set repeat_current=true\""
      [] prop = "LoopStatus" /\ value = PyStr("Playlist") -> "-C \"set repeat=true\""
      [] prop = "Shuffle" /\ value = PyBool(TRUE) -> "-C \"set shuffle=true\""
      [] prop = "Shuffle" /\ value = PyBool(FALSE) -> "-C \"set shuffle=false\""

\* C13: a Set of LoopStatus or Shuffle on the player interface, made while
\* the stored status is not None, issues the 'set' command that reflects the
\* requested value
C13_SetIssuesSetCommand ==
    [][\A prop \in {"LoopStatus", "Shuffle"} :
          SetOfStored(status[last'.proc], last', prop) =>
              Issued(last'.cmds, ReflectingCommand(prop, last'.args.value))]_vars

\* every volume command cmus-remote accepts
VolumeCommands == {"-v " \o ToString(n) \o "%" : n \in 0..100}

VolumeCommandsOf(cmds) == {i \in 1..Len(cmds) : cmds[i] \in VolumeCommands}

\* C14: a Set of Volume made while the stored status is not None raises
\* nothing and issues exactly one volume command: '-v 0%' below 0, '-v 100%'
\* above 1, a volume command for the level in between
C14_SetVolumeIssuesOne ==
    [][SetOfStored(status[last'.proc], last', "Volume") =>
          /\ last'.exc = ""
          /\ Cardinality(VolumeCommandsOf(last'.cmds)) = 1
          /\ last'.args.value.num < 0 => Issued(last'.cmds, "-v 0%")
          /\ last'.args.value.num > last'.args.value.den =>
                 Issued(last'.cmds, "-v 100%")]_vars

\* the statuses the adapters hold and the ones the last call has built
ObservedStatuses ==
    {status[p] : p \in Procs} \cup {c.new_status : c \in LastCycles}

\* the mapping of the loop status: "" for no status; else None for
\* continue=false, Track for continue=true with repeat_current=true, Playlist
\* for continue=true with repeat=true, and None for the rest
LoopStatusMapping(st) ==
    IF st = None THEN PyStr("")
    ELSE IF st["continue"] = "true" /\ st["repeat_current"] = "true"
         THEN PyStr("Track")
    ELSE IF st["continue"] = "true" /\ st["repeat"] = "true"
         THEN PyStr("Playlist")
    ELSE PyStr("None")

\* C15: get_LoopStatus is the loop status mapping on every status: "" exactly
\* for no status, and None, Track or Playlist for every other one
C15_LoopStatusMapping ==
    \A st \in ObservedStatuses : get_LoopStatus(st) = LoopStatusMapping(st)

NoChannelValue(st) ==
    \/ st = None
    \/ ~Has(st, "vol_left") \/ ~Has(st, "vol_right")
    \/ st["vol_left"] = "" \/ st["vol_right"] = ""

\* C16: get_Volume never raises; it is (vol_left + vol_right) / 200, within
\* [0, 1], when both channels have a value and 0.0 when there is no status or
\* a channel has none
C16_VolumeTotal ==
    \A st \in ObservedStatuses :
        /\ get_Volume(st).exc = ""
        /\ NoChannelValue(st) => get_Volume(st).v.num = 0
        /\ (~NoChannelValue(st) /\ IsIntString(st["vol_left"])
                /\ IsIntString(st["vol_right"])) =>
               /\ get_Volume(st).v
                    = PyFloat(int(st["vol_left"]) + int(st["vol_right"]), 200)
               /\ get_Volume(st).v.num \in 0..200

\* what a block of well-formed lines says about field k
LineKey(line) == IF line[1] \in {"tag", "set"} THEN line[2] ELSE line[1]
LineValue(line) ==
    IF line[1] \in {"tag", "set"} THEN Join(Tail(Tail(line))) ELSE Join(Tail(line))
Supplying(raw, k) == {i \in 1..Len(raw) : LineKey(raw[i]) = k}
Supplies(raw, k) == Supplying(raw, k) # {}
SuppliedValue(raw, k) ==
    LineValue(raw[CHOOSE i \in Supplying(raw, k) :
                      \A j \in Supplying(raw, k) : j <= i])

\* field k of the status built from raw when k is carried forward from prev,
\* and when it is not
CarriedField(prev, raw, k) ==
    IF Supplies(raw, k) THEN SuppliedValue(raw, k)
    ELSE IF prev = None THEN "" ELSE prev[k]
FreshField(raw, k) == IF Supplies(raw, k) THEN SuppliedValue(raw, k) ELSE ""

\* the call recorded by call began with a refresh cycle that built a status
FirstCycleBuilt(call) ==
    /\ call.cycles # <<>>
    /\ ~call.cycles[1].bad
    /\ call.cycles[1].parsed

EightFields == {"status", "duration", "continue", "repeat", "repeat_current",
                "shuffle", "vol_left", "vol_right"}
TenFields == EightFields \cup {"title", "file"}

\* C17 as claimed: each of the ten fields the block does not supply is the
\* one of the previous status, or "" when there is no previous status
C17_TenFieldsCarried ==
    [][FirstCycleBuilt(last') =>
          \A k \in TenFields :
              last'.cycles[1].new_status[k]
                  = CarriedField(status[last'.proc], last'.cycles[1].raw, k)]_vars

\* C17: the ten fields are in every status built from a block; the eight
\* fields from status to vol_right are carried forward from the previous
\* status, or "" without one, when the block does not supply them; file is
\* "" when the block does not supply it, and title is resolved from the
\* title and the file of the block alone
C17_EightFieldsCarried ==
    [][FirstCycleBuilt(last') =>
          /\ TenFields \subseteq DOMAIN last'.cycles[1].new_status
          /\ \A k \in EightFields :
                last'.cycles[1].new_status[k]
                    = CarriedField(status[last'.proc], last'.cycles[1].raw, k)
          /\ last'.cycles[1].new_status["file"]
                = FreshField(last'.cycles[1].raw, "file")
          /\ last'.cycles[1].new_status["title"]
                = get_title(FreshField(last'.cycles[1].raw, "title"),
                            FreshField(last'.cycles[1].raw, "file"))]_vars

\* a block without the volume was parsed with a status stored, and the new
\* status has the volume of the stored one
C17_Witness ==
    /\ last.call = "SetStatus"
    /\ last.cycles # <<>>
    /\ last.cycles[1].parsed /\ ~last.cycles[1].bad /\ ~last.cycles[1].prev_none
    /\ ~Supplies(last.cycles[1].raw, "vol_left")
    /\ last.cycles[1].new_status["vol_left"] = "60"
    /\ last.cycles[1].new_status["file"] = "/m/b.mp3"

\* C18: a value once known for one of the fields set_status carries forward
\* is not lost, whatever was taken in since: in the status built from the
\* next valid block the field has the value of the block or the value known
\* last
C18_KnownValueKept ==
    [][(FirstCycleBuilt(last') /\ known[last'.proc] # None) =>
          \A k \in EightFields :
              known[last'.proc][k] # "" =>
                  last'.cycles[1].new_status[k]
                      = CarriedField(known[last'.proc], last'.cycles[1].raw, k)]_vars

\* the statuses of the last call that were stored or announced
Published == {c.new_status : c \in {x \in LastCycles : x.stored \/ x.emitted}}

\* C19 as claimed: the title of every status stored or announced is not empty
C19_TitleNeverEmpty ==
    /\ \A p \in Procs : status[p] # None => status[p]["title"] # ""
    /\ \A st \in Published : st # None => st["title"] # ""

\* the display name of a file: the file itself for a URL, else its base name
\* without the extension
FileDisplayName(f) == IF HasScheme(f) THEN f ELSE BaseNoExt(f)

\* C19: the title of a status built from a block is not empty when the block
\* supplies a title that is not empty or a file with a display name, and is
\* empty when the block supplies neither; no stored status has an empty title
\* and a file with a display name
C19_TitleResolved ==
    /\ \A c \in LastCycles :
          (~c.bad /\ c.parsed) =>
              /\ (FreshField(c.raw, "title") # ""
                    \/ FileDisplayName(FreshField(c.raw, "file")) # "")
                     => c.new_status["title"] # ""
              /\ (FreshField(c.raw, "title") = ""
                    /\ FreshField(c.raw, "file") = "")
                     => c.new_status["title"] = ""
    /\ \A p \in Procs :
          (status[p] # None /\ status[p]["title"] = "")
              => FileDisplayName(status[p]["file"]) = ""

\* a block with a file and no title was stored under the name of the file
C19_Witness ==
    /\ last.call = "SetStatus"
    /\ last.cycles # <<>>
    /\ last.cycles[1].raw = ArgFileOnly
    /\ last.cycles[1].stored
    /\ status[last.proc] # None
    /\ status[last.proc]["title"] = "b"

\* a line with no space, or a tag or set line with no value
Malformed(line) ==
    \/ Len(line) < 2
    \/ line[1] \in {"tag", "set"} /\ Len(line) < 3

WellFormedLines(raw) == {i \in 1..Len(raw) : ~Malformed(raw[i])}

\* C20: a block with a malformed line loses that line only: nothing is
\* raised to the caller, the fields of the other lines are parsed, and the
\* status is stored
C20_MalformedLineSkipped ==
    \A c \in LastCycles :
        (~c.bad /\ WellFormedLines(c.raw) # 1..Len(c.raw)) =>
            /\ c.exc = ""
            /\ last.exc = ""
            /\ c.stored
            /\ c.new_status # None
            /\ \A i \in WellFormedLines(c.raw) :
                   Has(c.new_status, LineKey(c.raw[i]))

\* the fields each group is mapped from
FieldsOf(group) ==
    CASE group = "PlaybackStatus" -> {"status"}
      [] group = "LoopStatus" -> {"continue", "repeat", "repeat_current"}
      [] group = "Shuffle" -> {"shuffle"}
      [] group = "Volume" -> {"vol_left", "vol_right"}
      [] group = "Metadata" -> {"artist", "title", "album"}

\* the groups with a field that new has and prev has not, or has with
\* another value
FieldwiseDiff(prev, new) ==
    {g \in {"PlaybackStatus", "LoopStatus", "Shuffle", "Volume", "Metadata"} :
        \E k \in FieldsOf(g) :
            /\ k \in DOMAIN new
            /\ k \notin DOMAIN prev \/ prev[k] # new[k]}

\* C21: with a stored status and a new status the diff has a group exactly
\* when one of the fields mapped to it is in the new status and is missing
\* from the stored status or differs there
C21_DiffIsFieldwise ==
    [][(FirstCycleBuilt(last') /\ status[last'.proc] # None) =>
          /\ last'.cycles[1].diffed
          /\ last'.cycles[1].changed
                = FieldwiseDiff(status[last'.proc], last'.cycles[1].new_status)]_vars

\* a block that differs from the stored status in the title only was diffed
\* to Metadata alone
C21_Witness ==
    /\ last.call = "SetStatus"
    /\ last.cycles # <<>>
    /\ last.cycles[1].raw = ArgRetitled
    /\ last.cycles[1].diffed
    /\ last.cycles[1].changed = {"Metadata"}
    /\ status[last.proc] # None
    /\ status[last.proc]["title"] = "One"
    /\ status[last.proc]["file"] = "/m/b.mp3"

\* C22: every run of quit_script carries out all of its steps: no failure of
\* a step leaves the call, and after it the object is unexported, the loop is
\* asked to stop, the temporary file is closed and notifications are shut down
C22_TeardownBestEffort ==
    last.call = "quit_script" =>
        /\ last.exc = ""
        /\ ~exported[last.proc]
        /\ pc[last.proc] # "running"
        /\ ~tempimage[last.proc]
        /\ ~notify[last.proc]

\* within cycle c the text is parsed before the diff, and the diff is made
\* before a notification or a signal
CycleInOrder(c) ==
    /\ c.diffed => c.parsed
    /\ (c.shown \/ c.notified \/ c.emitted) => c.diffed
    /\ c.stored => c.parsed

\* cycle c began when cycle b was through: b has stored its status, and c
\* has found it there and has diffed against it
CycleFollows(b, c) ==
    /\ b.exc = ""
    /\ b.stored
    /\ c.prev_none = (b.new_status = None)
    /\ (c.diffed /\ b.new_status # None /\ c.new_status # None)
           => c.changed = FieldwiseDiff(b.new_status, c.new_status)

C24_RequeriedPosition ==
    (/\ last.call = "__init__"
     /\ last.exc = ""
     /\ Len(last.cycles) = 2
     /\ Supplies(last.cycles[2].raw, "position"))
        => properties[last.proc]["Position"]
              = PyInt(int(SuppliedValue(last.cycles[2].raw, "position")) * 1000)

\* the quotient of n by d rounded toward zero
TruncDiv(n, d) == IF n >= 0 THEN n \div d ELSE -((-n) \div d)

\* C25: Seek(offset) issues one command, -k with the signed quotient of
\* offset by 1000 rounded toward zero
C25_SeekTruncates ==
    last.call = "Seek" =>
        last.cmds = <<"-k " \o (IF TruncDiv(last.args.offset, 1000) >= 0
                                THEN "+" \o ToString(TruncDiv(last.args.offset, 1000))
                                ELSE ToString(TruncDiv(last.args.offset, 1000)))>>

\* C26: a cycle that has shown a notification for a new status has emitted
\* PropertiesChanged for it and has stored it
C26_NotifiedIsCommitted ==
    \A c \in LastCycles : c.notified => (c.emitted /\ c.stored)

\* the call recorded by call was one set_status that failed in its line loop
ParseFailed(call) ==
    /\ Len(call.cycles) = 1
    /\ ~call.cycles[1].bad
    /\ ~call.cycles[1].parsed

\* C27: a set_status that fails in its line loop changes neither the stored
\* status nor the published properties nor the thumbnail, and produces no
\* signal and no notification
C27_FailedParseChangesNothing ==
    [][ParseFailed(last') =>
          /\ status' = status
          /\ properties' = properties
          /\ thumb' = thumb
          /\ last'.exc # ""
          /\ ~last'.cycles[1].stored
          /\ ~last'.cycles[1].shown
          /\ ~last'.cycles[1].notified
          /\ ~last'.cycles[1].emitted]_vars

\* a block with a line without a space failed on an adapter that has a
\* status and a thumbnail
C27_Witness ==
    /\ last.call = "SetStatus"
    /\ last.exc = "ValueError"
    /\ Len(last.cycles) = 1
    /\ last.cycles[1].raw = ArgNoSpace
    /\ status[last.proc] # None
    /\ status[last.proc]["title"] = "One"
    /\ thumb[last.proc] = "/m/a.mp3"

\* C28: a Set of LoopStatus to v on an adapter with a stored status, with a
\* player that applies the commands and reports them in the next dump,
\* leaves get_LoopStatus of the stored status and the published LoopStatus
\* at v
C28_LoopStatusRoundTrip ==
    [][(/\ SetOfStored(status[last'.proc], last', "LoopStatus")
        /\ last'.nerr = 0
        /\ last'.cycles # <<>>
        /\ last'.cycles[1].raw = DumpLoop(last'.args.value.v)) =>
          /\ get_LoopStatus(status'[last'.proc]) = last'.args.value
          /\ properties'[last'.proc]["LoopStatus"] = last'.args.value]_vars

====
